---- MODULE Spec2Model ----
(***************************************************************************)
(* A model of domnix.py: the WHOIS pipeline (to_ascii, find_whois_server,  *)
(* interpret_whois, check_one) and the batch runner of main(), which fans  *)
(* check_one out over a thread pool, collects the results as they complete *)
(* and sorts them.                                                         *)
(*                                                                         *)
(* Strings that the program takes apart (domains, queries) are sequences   *)
(* of one-character strings; host names and error messages, which the      *)
(* program only passes on, are plain strings.                              *)
(***************************************************************************)
EXTENDS Integers, Sequences, FiniteSets, TLC

VARIABLES
    domains,      \* main: the list load_domains returned
    workers,      \* main: args.workers
    retry,        \* check_one: retry
    default_tld,  \* main: default_tld
    nextTask,     \* executor: index of the next submitted call no thread has taken
    faults,       \* the str(e) values a failing whois_query may produce in this run
    observed,     \* the submitted calls whose transport calls the history records
    chk,          \* per submitted call: where it is in check_one, and its locals
    cache,        \* WHOIS_SERVER_CACHE
    finished,     \* per future: NoResult, or the tuple check_one returned
    collected,    \* futures as_completed has yielded
    results,      \* main: results, in the order of collection
    mainPc,       \* main: "collect" in the as_completed loop, "done" after the sort
    rootCalls,    \* history: per future, its whois_query("whois.iana.org", tld) calls
    authCalls,    \* history: per observed call, its whois_query(server, q) calls, in order
    lastFail,     \* history: per observed call, str(e) of its latest failed whois_query(server, q)
    resolved,     \* history: per future, what find_whois_server returned to it
    probe,        \* a direct call of interpret_whois: its argument and what it returned
    stages,       \* the steps of whois_query at which a call may fail in this run
    lastCall,     \* history: per observed call, the network in its latest whois_query(server, q)
    wire          \* a direct call of whois_query: the network's behaviour and what came of it

vars == <<domains, workers, retry, default_tld, nextTask, faults, observed, chk, cache, finished,
          collected, results, mainPc, rootCalls, authCalls, lastFail, resolved, probe,
          stages, lastCall, wire>>

----------------------------------------------------------------------------
(* Bounds of the model *)

MaxBatch == 2

MaxWorkers == 2

MaxRetry == 2

MaxLines == 4

MaxChunks == 2

----------------------------------------------------------------------------
(* Values *)

None == "None"

\* a future that has not finished
NoResult == <<>>

\* check_one's default for retry, which main never overrides
DefaultRetry == 1

\* the key main's sort gives a record whose domain is not in the input
MissingOrder == 1000000000

\* hosts a root-directory response may name
Hosts == {"whois.h1", "whois.h2"}

\* str(e) of the exceptions a transport call may raise; str(MemoryError()) is ""
ErrorMessages == {"", "timed out", "refused"}

Dot == "."

Space == " "

S_com == <<"c", "o", "m">>

S_io == <<"i", "o">>

\* inputs of a batch, as load_domains hands them over (stripped, non-empty): a
\* name with a zone, a name without a dot, a name that loses its only dot in
\* normalisation, and a name in a second zone
BatchPool ==
    { <<"a", ".", "c", "o", "m">>,
      <<"a">>,
      <<"a", ".">>,
      <<"b", ".", "i", "o">> }

\* inputs of a batch whose names all reach the directory lookup: one in each
\* of two zones
ZonePool == {<<"a", ".", "c", "o", "m">>, <<"b", ".", "i", "o">>}

\* inputs of a batch whose threads are scheduled fairly: a name that is looked
\* up and queried, and one that is invalid
FairPool == {<<"a", ".", "c", "o", "m">>, <<"a", ".">>}

\* inputs of a single check_one call: those of BatchPool, and a padded
\* upper-case name, a padded name without a dot, a lone dot and the empty string
DomainPool ==
    BatchPool \cup { <<" ", "B", ".", "c", "o", "m", " ">>, <<" ", "a", " ">>,
                     <<".">>, <<>> }

TldPool == {S_com, S_io}

----------------------------------------------------------------------------
(* Strings *)

HasDot(s) == \E i \in 1..Len(s) : s[i] = Dot

RECURSIVE LStrip(_, _)
LStrip(s, c) ==
    IF s # <<>> /\ Head(s) = c THEN LStrip(Tail(s), c) ELSE s

RECURSIVE RStrip(_, _)
RStrip(s, c) ==
    IF s # <<>> /\ s[Len(s)] = c THEN RStrip(SubSeq(s, 1, Len(s) - 1), c) ELSE s

Strip(s, c) == RStrip(LStrip(s, c), c)

LowerChar(c) ==
    CASE c = "A" -> "a"
      [] c = "B" -> "b"
      [] OTHER -> c

Lower(s) == [i \in 1..Len(s) |-> LowerChar(s[i])]

RECURSIVE Split(_, _)
Split(s, sep) ==
    IF \E i \in 1..Len(s) : s[i] = sep
    THEN LET i == CHOOSE k \in 1..Len(s) :
                      s[k] = sep /\ \A j \in 1..(k - 1) : s[j] # sep
         IN  <<SubSeq(s, 1, i - 1)>> \o Split(SubSeq(s, i + 1, Len(s)), sep)
    ELSE <<s>>

\* str.encode("idna") on ASCII text: the text itself, unless a label is empty
\* (other than a last one) or 64 characters or longer, which raises
IdnaEncode(s) ==
    LET labels == Split(s, Dot)
        n == Len(labels)
    IN  IF /\ \A i \in 1..(n - 1) : Len(labels[i]) > 0 /\ Len(labels[i]) < 64
           /\ Len(labels[n]) < 64
        THEN [ok |-> TRUE, val |-> s]
        ELSE [ok |-> FALSE, val |-> <<>>]

to_ascii(domain) ==
    LET dom == Lower(Strip(Strip(domain, Space), Dot))
    IN  IF dom = <<>> THEN dom
        ELSE IF IdnaEncode(dom).ok THEN IdnaEncode(dom).val ELSE dom

----------------------------------------------------------------------------
(* interpret_whois *)

\* Lines a WHOIS response is made of here, by the patterns that match them
L_nomatch == "No match for domain"

L_domain == "Domain Name: EXAMPLE.COM"

L_status == "Status: active"

L_registrant == "Registrant: someone"

L_terms == "% terms of use for registered names"

L_free == "Status: free"

Lines == {L_nomatch, L_domain, L_status, L_registrant, L_terms, L_free}

\* raw responses: up to MaxLines lines
Texts == UNION {[1..n -> Lines] : n \in 0..MaxLines}

\* the responses an authoritative server gives here, one per outcome of
\* interpret_whois and one with an availability marker next to a registered
\* indicator; check_one reads a response through interpret_whois only
Responses ==
    {<<>>, <<L_terms>>, <<L_nomatch>>, <<L_domain>>, <<L_nomatch, L_registrant>>}

\* any(marker in text for marker in AVAILABLE_MARKERS)
HasAvailableMarker(raw) == \E i \in 1..Len(raw) : raw[i] \in {L_nomatch, L_free}

\* re.search(r"^domain name:\s*\S+", raw, IGNORECASE | MULTILINE)
HasDomainNameLine(raw) == \E i \in 1..Len(raw) : raw[i] \in {L_domain}

\* re.search(r"^status:\s*(ok|client|server|active|registered)", raw, ...)
HasActiveStatusLine(raw) == \E i \in 1..Len(raw) : raw[i] \in {L_status}

\* re.search(r"registrant|registry expiry date|created:", raw, IGNORECASE)
HasRegistrationData(raw) == \E i \in 1..Len(raw) : raw[i] \in {L_registrant}

\* the chain with the first two rules in the other order
interpret_whois_DomainFirst(raw) ==
    IF HasDomainNameLine(raw) THEN "registered"
    ELSE IF HasAvailableMarker(raw) THEN "free"
    ELSE IF HasActiveStatusLine(raw) THEN "registered"
    ELSE IF HasRegistrationData(raw) THEN "registered"
    ELSE "unknown"

interpret_whois(raw) ==
    IF HasAvailableMarker(raw) THEN "free"
    ELSE IF HasDomainNameLine(raw) THEN "registered"
    ELSE IF HasActiveStatusLine(raw) THEN "registered"
    ELSE IF HasRegistrationData(raw) THEN "registered"
    ELSE "unknown"

----------------------------------------------------------------------------
(* whois_query *)

\* the steps of whois_query that can raise: create_connection, sendall,
\* shutdown, recv
Stages == {"connect", "send", "shutdown", "recv"}

\* what one recv returns: a piece of the response, here one line
Chunks == {<<l>> : l \in Lines}

\* how the network and the peer behave during one call: each step before the
\* reading succeeds ("ok") or raises with a message; the peer sends `chunks`,
\* and then closes ("eof") or the reading raises with a message
Behaviour(connect, send, shutdown, chunks, end) ==
    [connect |-> connect, send |-> send, shutdown |-> shutdown, chunks |-> chunks,
     end |-> end]

\* the behaviours in which the peer is heard: it sends one of `sent`
Heard(sent) ==
    {Behaviour("ok", "ok", "ok", chunks, end) :
        chunks \in sent, end \in {"eof"} \cup ErrorMessages}

\* the behaviours in which the call fails before it reads
Unheard ==
    UNION {{Behaviour(msg, "ok", "ok", <<>>, "eof"),
            Behaviour("ok", msg, "ok", <<>>, "eof"),
            Behaviour("ok", "ok", msg, <<>>, "eof")} : msg \in ErrorMessages}

\* every behaviour with up to MaxChunks chunks
Scripts == Unheard \cup Heard(UNION {[1..n -> Chunks] : n \in 0..MaxChunks})

\* a response as the peer sends it: line by line
Chunked(text) == [k \in 1..Len(text) |-> <<text[k]>>]

\* the step at which the call fails under behaviour s, and the message
FailedAt(s) ==
    IF s.connect # "ok" THEN [stage |-> "connect", msg |-> s.connect]
    ELSE IF s.send # "ok" THEN [stage |-> "send", msg |-> s.send]
    ELSE IF s.shutdown # "ok" THEN [stage |-> "shutdown", msg |-> s.shutdown]
    ELSE IF s.end # "eof" THEN [stage |-> "recv", msg |-> s.end]
    ELSE [stage |-> "none", msg |-> None]

\* b"".join(chunks)
RECURSIVE Join(_)
Join(chunks) == IF chunks = <<>> THEN <<>> ELSE Head(chunks) \o Join(Tail(chunks))

\* the loop with the exception of recv swallowed: what was read is returned
RecvLoopKeepPartial(chunks, recvs, incoming, end) ==
    [ok |-> TRUE, chunks |-> chunks \o incoming, recvs |-> recvs + Len(incoming) + 1,
     err |-> None]

\* lines 43-47: recv until it returns nothing; an exception leaves the loop
\* and the chunks read so far are lost
RECURSIVE RecvLoop(_, _, _, _)
RecvLoop(chunks, recvs, incoming, end) ==
    IF incoming # <<>>
    THEN RecvLoop(Append(chunks, Head(incoming)), recvs + 1, Tail(incoming), end)
    ELSE IF end = "eof"
         THEN [ok |-> TRUE, chunks |-> chunks, recvs |-> recvs + 1, err |-> None]
         ELSE [ok |-> FALSE, chunks |-> <<>>, recvs |-> recvs + 1, err |-> end]

\* whois_query returns text
Returns(text, ops) == [ok |-> TRUE, text |-> text, err |-> None, ops |-> ops]

\* whois_query raises: there is no text
Raises(msg, ops) == [ok |-> FALSE, text |-> <<>>, err |-> msg, ops |-> ops]

\* whois_query without the with statement: the socket is closed on the normal
\* path only
whois_query_NoWith(s) ==
    IF s.connect # "ok" THEN Raises(s.connect, <<"connect">>)
    ELSE IF s.send # "ok" THEN Raises(s.send, <<"connect", "sendall">>)
    ELSE IF s.shutdown # "ok" THEN Raises(s.shutdown, <<"connect", "sendall", "shutdown">>)
    ELSE LET r == RecvLoop(<<>>, 0, s.chunks, s.end)
             ops == <<"connect", "sendall", "shutdown">> \o [k \in 1..r.recvs |-> "recv"]
         IN  IF r.ok THEN Returns(Join(r.chunks), ops \o <<"close">>)
             ELSE Raises(r.err, ops)

\* lines 39-48 under behaviour s: what the call returns or raises, and the
\* socket operations it performs, the close of the with statement included.
\* A failed create_connection leaves no socket.
whois_query(s) ==
    IF s.connect # "ok" THEN Raises(s.connect, <<"connect">>)
    ELSE IF s.send # "ok" THEN Raises(s.send, <<"connect", "sendall", "close">>)
    ELSE IF s.shutdown # "ok"
         THEN Raises(s.shutdown, <<"connect", "sendall", "shutdown", "close">>)
    ELSE LET r == RecvLoop(<<>>, 0, s.chunks, s.end)
             ops == <<"connect", "sendall", "shutdown">> \o [k \in 1..r.recvs |-> "recv"]
                        \o <<"close">>
         IN  IF r.ok THEN Returns(Join(r.chunks), ops) ELSE Raises(r.err, ops)

\* the whois_query calls check_one can make: the behaviour of the network
\* and the authoritative server, and what whois_query does under it
ServerScripts == Unheard \cup Heard({Chunked(raw) : raw \in Responses})

\* those in which nothing fails
AnsweredCalls ==
    {[script |-> s, out |-> whois_query(s)] :
        s \in {b \in ServerScripts : FailedAt(b).stage = "none"}}

\* those that fail, by step and message
FailedCalls ==
    [stage \in Stages |-> [msg \in ErrorMessages |->
        {[script |-> s, out |-> whois_query(s)] :
            s \in {b \in ServerScripts : FailedAt(b) = [stage |-> stage, msg |-> msg]}}]]

\* no call of whois_query
NoCall == Behaviour("none", "none", "none", <<>>, "none")

NoWire == [script |-> NoCall, out |-> Raises(None, <<>>)]

\* out = whois_query(...) under the behaviour wire.script
Transmit ==
    /\ wire.script \in Scripts
    /\ wire.out = NoWire.out
    /\ wire' = [wire EXCEPT !.out = whois_query(wire.script)]
    /\ UNCHANGED <<domains, workers, retry, default_tld, nextTask, faults, observed,
                   chk, cache, finished, collected, results, mainPc, rootCalls,
                   authCalls, lastFail, resolved, probe, stages, lastCall>>

----------------------------------------------------------------------------
(* find_whois_server *)

\* lines of a root-directory response: a whois referral, or anything else
RootLines ==
    [field : {"whois"}, value : Hosts] \cup [field : {"remarks"}, value : {""}]

RootResponses ==
    {<<>>} \cup {<<l>> : l \in RootLines} \cup {<<l, m>> : l \in RootLines, m \in RootLines}

\* parts[-1] of domain.split(".")
Zone(d) == LET parts == Split(d, Dot) IN parts[Len(parts)]

\* re.search(r"whois:\s*(\S+)", resp): the first referral, None without one
ParseReferral(resp) ==
    IF \E i \in 1..Len(resp) : resp[i].field = "whois"
    THEN LET i == CHOOSE k \in 1..Len(resp) :
                      /\ resp[k].field = "whois"
                      /\ \A j \in 1..(k - 1) : resp[j].field # "whois"
         IN  resp[i].value
    ELSE None

----------------------------------------------------------------------------
(* check_one *)

InvalidNote == <<"Invalid domain name">>

NotFoundNote == <<"WHOIS server not found at IANA">>

\* the source's text is the Russian for "WHOIS query error"
FallbackNote == <<"Oshibka WHOIS-zaprosa">>

\* f"whois: {server}"
WhoisNote(server) == <<"whois: ", server>>

\* f"{last_err or FallbackNote}"
ErrorNote(last_err) ==
    IF last_err = None \/ last_err = "" THEN FallbackNote ELSE <<last_err>>

\* lines 89-90: the default TLD is appended to the parameter itself
WithDefaultTld(domain, tld) ==
    IF ~HasDot(domain) THEN domain \o <<Dot>> \o tld ELSE domain

\* line 93 without its second test
\* lines 89-92 for every input string and default TLD of the pools: domain
\* after line 90, and d
Normalise ==
    [x \in DomainPool, tld \in TldPool |->
        LET domain == WithDefaultTld(x, tld)
        IN  [domain |-> domain, d |-> to_ascii(domain)]]

InvalidEmptyOnly(d) == d = <<>>

\* line 93
Invalid(d) == d = <<>> \/ ~HasDot(d)

\* line 99
Queries(d) == <<d, <<"d", "o", "m", "a", "i", "n", " ">> \o d>>

\* the frame of a submitted call that no pool thread has taken yet
Queued ==
    [pc |-> "queued", domain |-> <<>>, d |-> <<>>, server |-> None,
     attempt |-> 0, qi |-> 0, last_err |-> None]

Tasks == 1..Len(domains)

\* the calls a pool thread is running
Running == {i \in Tasks : chk[i].pc \in {"resolve", "root", "query"}}

\* the frame of a call that has returned
Returned == [Queued EXCEPT !.pc = "returned"]

\* a return of check_one: the future holds the tuple and the thread is free
Return(i, rec) ==
    /\ finished' = [finished EXCEPT ![i] = rec]
    /\ chk' = [chk EXCEPT ![i] = Returned]

\* line 96 on: with a server, the loops of lines 101-102 are entered
EnterQueries(i, server) ==
    chk' = [chk EXCEPT ![i].pc = "query", ![i].server = server,
                       ![i].attempt = 0, ![i].qi = 1]

\* a pool that starts one thread too many
ThreadFreeOneMore == Cardinality(Running) <= workers

\* ThreadPoolExecutor(max_workers): a call starts when fewer than max_workers run
ThreadFree == Cardinality(Running) < workers

\* a pool thread takes the next submitted call and runs lines 89-94
Take(i) ==
    /\ i = nextTask
    /\ chk[i].pc = "queued"
    /\ ThreadFree
    /\ LET domain == Normalise[domains[i], default_tld].domain
           d == Normalise[domains[i], default_tld].d
       IN  IF Invalid(d)
           THEN /\ finished' = [finished EXCEPT ![i] = <<domain, "invalid", InvalidNote>>]
                /\ chk' = [chk EXCEPT ![i] = Returned]
           ELSE /\ chk' = [chk EXCEPT ![i].pc = "resolve", ![i].domain = domain,
                                      ![i].d = d]
                /\ finished' = finished
    /\ nextTask' = nextTask + 1
    /\ UNCHANGED <<probe, wire, stages, lastCall, domains, workers, retry, default_tld,
                   faults, observed, cache, collected, results, mainPc, rootCalls,
                   authCalls, lastFail, resolved>>

\* Resolve without the lookup of lines 57-58: every check asks the root directory
ResolveNoCache(i) ==
    /\ chk[i].pc = "resolve"
    /\ chk' = [chk EXCEPT ![i].pc = "root"]
    /\ rootCalls' = [rootCalls EXCEPT ![i] = @ + 1]
    /\ UNCHANGED <<probe, wire, stages, lastCall, domains, workers, retry, default_tld,
                   nextTask, faults, observed, cache, finished, collected, results,
                   mainPc, authCalls, lastFail, resolved>>

\* lines 95 and 53-60: the cache is looked up; on a miss the root query is sent
Resolve(i) ==
    /\ chk[i].pc = "resolve"
    /\ LET me == chk[i]
           parts == Split(me.d, Dot)
           tld == Zone(me.d)
       IN  IF Len(parts) < 2
           THEN /\ Return(i, <<me.domain, "unknown", NotFoundNote>>)
                /\ UNCHANGED <<rootCalls, resolved>>
           ELSE IF tld \in DOMAIN cache
           THEN /\ EnterQueries(i, cache[tld])
                /\ resolved' = [resolved EXCEPT ![i] = cache[tld]]
                /\ UNCHANGED <<finished, rootCalls>>
           ELSE /\ chk' = [chk EXCEPT ![i].pc = "root"]
                /\ rootCalls' = [rootCalls EXCEPT ![i] = @ + 1]
                /\ UNCHANGED <<finished, resolved>>
    /\ UNCHANGED <<probe, wire, stages, lastCall, domains, workers, retry, default_tld,
                   nextTask, faults, observed, cache, collected, results, mainPc,
                   authCalls, lastFail>>

\* RootReply with a failed lookup tried again instead of returned
RootReplyRetry(i) ==
    /\ chk[i].pc = "root"
    /\ \E server \in {None} \cup {ParseReferral(resp) : resp \in RootResponses} :
          IF server = None
          THEN /\ chk' = [chk EXCEPT ![i].pc = "resolve"]
               /\ UNCHANGED <<cache, resolved>>
          ELSE /\ cache' = (Zone(chk[i].d) :> server) @@ cache
               /\ EnterQueries(i, server)
               /\ resolved' = [resolved EXCEPT ![i] = server]
    /\ UNCHANGED <<probe, wire, stages, lastCall, domains, workers, retry, default_tld,
                   nextTask, faults, observed, finished, collected, results, mainPc,
                   rootCalls, authCalls, lastFail>>

\* RootReply with a failed lookup remembered: a not-found marker is stored
RootReplyStoreNotFound(i) ==
    /\ chk[i].pc = "root"
    /\ \E server \in {None} \cup {ParseReferral(resp) : resp \in RootResponses} :
          LET me == chk[i]
          IN  IF server = None
              THEN /\ Return(i, <<me.domain, "unknown", NotFoundNote>>)
                   /\ cache' = (Zone(me.d) :> None) @@ cache
                   /\ UNCHANGED resolved
              ELSE /\ cache' = (Zone(me.d) :> server) @@ cache
                   /\ EnterQueries(i, server)
                   /\ resolved' = [resolved EXCEPT ![i] = server]
                   /\ UNCHANGED finished
    /\ UNCHANGED <<probe, wire, stages, lastCall, domains, workers, retry, default_tld,
                   nextTask, faults, observed, collected, results, mainPc, rootCalls,
                   authCalls, lastFail>>

\* RootReply without line 66: the parsed host is returned but not stored
RootReplyNoStore(i) ==
    /\ chk[i].pc = "root"
    /\ \E server \in {None} \cup {ParseReferral(resp) : resp \in RootResponses} :
          LET me == chk[i]
          IN  IF server = None
              THEN /\ Return(i, <<me.domain, "unknown", NotFoundNote>>)
                   /\ UNCHANGED resolved
              ELSE /\ EnterQueries(i, server)
                   /\ resolved' = [resolved EXCEPT ![i] = server]
                   /\ UNCHANGED finished
    /\ UNCHANGED <<probe, wire, stages, lastCall, domains, workers, retry, default_tld,
                   nextTask, faults, observed, cache, collected, results, mainPc,
                   rootCalls, authCalls, lastFail>>

\* RootReply with the host stored under the domain instead of its zone
RootReplyKeyByDomain(i) ==
    /\ chk[i].pc = "root"
    /\ \E server \in {None} \cup {ParseReferral(resp) : resp \in RootResponses} :
          LET me == chk[i]
          IN  IF server = None
              THEN /\ Return(i, <<me.domain, "unknown", NotFoundNote>>)
                   /\ UNCHANGED <<cache, resolved>>
              ELSE /\ cache' = (me.d :> server) @@ cache
                   /\ EnterQueries(i, server)
                   /\ resolved' = [resolved EXCEPT ![i] = server]
                   /\ UNCHANGED finished
    /\ UNCHANGED <<probe, wire, stages, lastCall, domains, workers, retry, default_tld,
                   nextTask, faults, observed, collected, results, mainPc, rootCalls,
                   authCalls, lastFail>>

\* lines 60-68 and 96-97: the root query raises, or answers and is parsed
RootReply(i) ==
    /\ chk[i].pc = "root"
    /\ \E server \in {None} \cup {ParseReferral(resp) : resp \in RootResponses} :
          LET me == chk[i]
          IN  IF server = None
              THEN /\ Return(i, <<me.domain, "unknown", NotFoundNote>>)
                   /\ UNCHANGED <<cache, resolved>>
              ELSE /\ cache' = (Zone(me.d) :> server) @@ cache
                   /\ EnterQueries(i, server)
                   /\ resolved' = [resolved EXCEPT ![i] = server]
                   /\ UNCHANGED finished
    /\ UNCHANGED <<probe, wire, stages, lastCall, domains, workers, retry, default_tld,
                   nextTask, faults, observed, collected, results, mainPc, rootCalls,
                   authCalls, lastFail>>

\* OnFailure with the exception of whois_query left uncaught: the call ends
\* without a tuple
OnFailureRaise(i, msg) ==
    /\ chk' = [chk EXCEPT ![i] = Returned]
    /\ UNCHANGED finished

\* OnFailure with range(retry) for range(retry + 1)
OnFailureRangeRetry(i, msg) ==
    LET me == chk[i]
    IN  IF me.qi < Len(Queries(me.d))
        THEN /\ chk' = [chk EXCEPT ![i].qi = me.qi + 1, ![i].last_err = msg]
             /\ UNCHANGED finished
        ELSE IF me.attempt + 1 < retry
        THEN /\ chk' = [chk EXCEPT ![i].attempt = me.attempt + 1, ![i].qi = 1,
                                   ![i].last_err = msg]
             /\ UNCHANGED finished
        ELSE Return(i, <<me.domain, "error", ErrorNote(msg)>>)

\* OnFailure with the first error kept: last_err = last_err or str(e)
OnFailureKeepFirst(i, msg) ==
    LET me == chk[i]
        last_err == IF me.last_err = None \/ me.last_err = "" THEN msg ELSE me.last_err
    IN  IF me.qi < Len(Queries(me.d))
        THEN /\ chk' = [chk EXCEPT ![i].qi = me.qi + 1, ![i].last_err = last_err]
             /\ UNCHANGED finished
        ELSE IF me.attempt + 1 < retry + 1
        THEN /\ chk' = [chk EXCEPT ![i].attempt = me.attempt + 1, ![i].qi = 1,
                                   ![i].last_err = last_err]
             /\ UNCHANGED finished
        ELSE Return(i, <<me.domain, "error", ErrorNote(last_err)>>)

\* lines 110-113 with the loop heads 101-102: the error is kept and the loops
\* go on to the next variant, to the next attempt, or end in the final return
OnFailure(i, msg) ==
    LET me == chk[i]
        last_err == msg
    IN  IF me.qi < Len(Queries(me.d))
        THEN /\ chk' = [chk EXCEPT ![i].qi = me.qi + 1, ![i].last_err = last_err]
             /\ UNCHANGED finished
        ELSE IF me.attempt + 1 < retry + 1
        THEN /\ chk' = [chk EXCEPT ![i].attempt = me.attempt + 1, ![i].qi = 1,
                                   ![i].last_err = last_err]
             /\ UNCHANGED finished
        ELSE Return(i, <<me.domain, "error", ErrorNote(last_err)>>)

\* OnResponse with an unknown classification handled like a failed call
OnResponseRetryUnknown(i, raw) ==
    LET me == chk[i]
        status == interpret_whois(raw)
    IN  IF status # "unknown"
        THEN Return(i, <<me.domain, status, WhoisNote(me.server)>>)
        ELSE OnFailure(i, "unknown")

\* OnResponse with the unknown return of line 97 used for line 109
OnResponseUnknownNote(i, raw) ==
    LET me == chk[i]
        status == interpret_whois(raw)
    IN  IF status # "unknown"
        THEN Return(i, <<me.domain, status, WhoisNote(me.server)>>)
        ELSE Return(i, <<me.domain, "unknown", NotFoundNote>>)

\* lines 105-109: a response is classified and returned
OnResponse(i, raw) ==
    LET me == chk[i]
        status == interpret_whois(raw)
    IN  IF status # "unknown"
        THEN Return(i, <<me.domain, status, WhoisNote(me.server)>>)
        ELSE Return(i, <<me.domain, "unknown", WhoisNote(me.server)>>)

\* lines 103-112 around the call `made` of whois_query(server, q, timeout)
AfterCall(i, made) ==
    LET me == chk[i]
        out == made.out
        call == [server |-> me.server, q |-> Queries(me.d)[me.qi], ok |-> out.ok]
    IN  /\ authCalls' = IF i \in observed
                        THEN [authCalls EXCEPT ![i] = Append(@, call)]
                        ELSE authCalls
        /\ lastCall' = IF i \in observed
                       THEN [lastCall EXCEPT ![i] = made.script]
                       ELSE lastCall
        /\ IF out.ok
           THEN /\ lastFail' = lastFail
                /\ OnResponse(i, out.text)
           ELSE /\ lastFail' = IF i \in observed
                               THEN [lastFail EXCEPT ![i] = out.err]
                               ELSE lastFail
                /\ OnFailure(i, out.err)

\* line 104: whois_query(server, q, timeout) under a behaviour of this run
AuthCall(i) ==
    /\ chk[i].pc = "query"
    /\ \/ \E stage \in stages, msg \in faults :
            \E made \in FailedCalls[stage][msg] : AfterCall(i, made)
       \/ \E made \in AnsweredCalls : AfterCall(i, made)
    /\ UNCHANGED <<probe, wire, stages, domains, workers, retry, default_tld, nextTask,
                   faults, observed, cache, collected, results, mainPc, rootCalls,
                   resolved>>

----------------------------------------------------------------------------
(* interpret_whois called on its own *)

\* no direct call of interpret_whois
NoProbe == [raw |-> <<>>, status |-> None]

\* status = interpret_whois(raw)
Classify ==
    /\ probe.status = None
    /\ probe.raw \in Texts
    /\ probe' = [probe EXCEPT !.status = interpret_whois(probe.raw)]
    /\ UNCHANGED <<domains, workers, retry, default_tld, nextTask, faults, observed,
                   chk, cache, finished, collected, results, mainPc, rootCalls,
                   authCalls, lastFail, resolved, stages, lastCall, wire>>

----------------------------------------------------------------------------
(* main *)

\* line 155: order = {d: i for i, d in enumerate(domains)}; a later position
\* of the same string replaces an earlier one.  Line 156: order.get(r[0], 10**9)
OrderKey(doms, r) ==
    IF \E i \in 1..Len(doms) : doms[i] = r[1]
    THEN (CHOOSE i \in 1..Len(doms) :
              doms[i] = r[1] /\ \A j \in (i + 1)..Len(doms) : doms[j] # r[1]) - 1
    ELSE MissingOrder

\* list.sort is stable: r goes behind every record whose key is not larger
RECURSIVE InsertByKey(_, _, _)
InsertByKey(sorted, r, doms) ==
    IF sorted = <<>> THEN <<r>>
    ELSE IF OrderKey(doms, sorted[Len(sorted)]) <= OrderKey(doms, r)
         THEN Append(sorted, r)
         ELSE Append(InsertByKey(SubSeq(sorted, 1, Len(sorted) - 1), r, doms),
                     sorted[Len(sorted)])

RECURSIVE SortResults(_, _)
SortResults(rs, doms) ==
    IF rs = <<>> THEN <<>>
    ELSE InsertByKey(SortResults(SubSeq(rs, 1, Len(rs) - 1), doms), rs[Len(rs)], doms)

\* lines 151-156: as_completed yields a finished future, main appends its
\* result; after the last one the with-block ends and the list is sorted
Collect(i) ==
    /\ mainPc = "collect"
    /\ i \notin collected
    /\ finished[i] # NoResult
    /\ collected' = collected \cup {i}
    /\ IF Len(results) + 1 = Len(domains)
       THEN /\ results' = SortResults(Append(results, finished[i]), domains)
            /\ mainPc' = "done"
       ELSE /\ results' = Append(results, finished[i])
            /\ mainPc' = mainPc
    /\ UNCHANGED <<probe, wire, stages, lastCall, domains, workers, retry, default_tld,
                   nextTask, faults, observed, chk, cache, finished, rootCalls,
                   authCalls, lastFail, resolved>>

----------------------------------------------------------------------------
(* Specifications *)

\* the state after main has submitted check_one for every domain (line 150)
Submitted(doms, nworkers, r, tld, msgs, obs, known) ==
    /\ domains = doms
    /\ workers = nworkers
    /\ retry = r
    /\ default_tld = tld
    /\ faults = msgs
    /\ observed = obs
    /\ nextTask = 1
    /\ chk = [i \in 1..Len(doms) |-> Queued]
    /\ cache = known
    /\ finished = [i \in 1..Len(doms) |-> NoResult]
    /\ collected = {}
    /\ results = <<>>
    /\ mainPc = "collect"
    /\ rootCalls = [i \in 1..Len(doms) |-> 0]
    /\ authCalls = [i \in 1..Len(doms) |-> <<>>]
    /\ lastFail = [i \in 1..Len(doms) |-> None]
    /\ resolved = [i \in 1..Len(doms) |-> None]
    /\ lastCall = [c \in obs |-> NoCall]

\* a batch run of main: the cache is empty, check_one runs with its default
\* retry, --tld is not given, a failing transport call times out, and the
\* history holds the root queries only
Init ==
    \E n \in 1..MaxBatch, nworkers \in 1..MaxWorkers :
        \E doms \in [1..n -> BatchPool] :
            /\ Submitted(doms, nworkers, DefaultRetry, S_com, {"timed out"}, {}, <<>>)
            /\ stages = {"connect"}
            /\ probe = NoProbe
            /\ wire = NoWire

\* what earlier calls may have left in the cache
KnownZones == {<<>>, S_com :> "whois.h1"}

\* one check_one call, with any retry (not negative), input string and
\* default TLD, every kind of failure message, a cache that earlier calls may
\* have filled, and its transport calls recorded
InitCheck ==
    \E dom \in DomainPool, r \in 0..MaxRetry, tld \in TldPool, known \in KnownZones :
        /\ Submitted(<<dom>>, 1, r, tld, ErrorMessages, {1}, known)
        /\ stages = Stages
        /\ probe = NoProbe
        /\ wire = NoWire

Next ==
    \/ \E i \in Tasks : Take(i)
    \/ \E i \in Tasks : Resolve(i)
    \/ \E i \in Tasks : RootReply(i)
    \/ \E i \in Tasks : AuthCall(i)
    \/ \E i \in Tasks : Collect(i)

Spec == Init /\ [][Next]_vars

SpecCheck == InitCheck /\ [][Next]_vars

\* a batch run of main in which every name has a zone to resolve, and so the
\* checks of up to MaxWorkers threads meet at the cache; otherwise as Init
InitZones ==
    \E n \in 1..MaxBatch, nworkers \in 1..MaxWorkers :
        \E doms \in [1..n -> ZonePool] :
            /\ Submitted(doms, nworkers, DefaultRetry, S_com, {"timed out"}, {}, <<>>)
            /\ stages = {"connect"}
            /\ probe = NoProbe
            /\ wire = NoWire

SpecZones == InitZones /\ [][Next]_vars

\* a batch run of main with the pool threads scheduled fairly and every
\* transport call returning or failing in the end (the socket timeout): a
\* step that stays possible is taken
InitFair ==
    \E n \in 1..MaxBatch, nworkers \in 1..MaxWorkers :
        \E doms \in [1..n -> FairPool] :
            /\ Submitted(doms, nworkers, DefaultRetry, S_com, {"timed out"}, {}, <<>>)
            /\ stages = {"connect"}
            /\ probe = NoProbe
            /\ wire = NoWire

SpecFair == InitFair /\ [][Next]_vars /\ WF_vars(Next)

\* interpret_whois called on its own, with any text of up to MaxLines lines;
\* main has no domains
InitClassify ==
    /\ Submitted(<<>>, 1, DefaultRetry, S_com, {}, {}, <<>>)
    /\ stages = {}
    /\ probe \in [raw : Texts, status : {None}]
    /\ wire = NoWire

NextClassify == Classify

SpecClassify == InitClassify /\ [][NextClassify]_vars

\* whois_query called on its own, under any behaviour of the network and the
\* peer with up to MaxChunks chunks; main has no domains
InitTransport ==
    /\ Submitted(<<>>, 1, DefaultRetry, S_com, ErrorMessages, {}, <<>>)
    /\ stages = Stages
    /\ probe = NoProbe
    /\ wire \in [script : Scripts, out : {NoWire.out}]

NextTransport == Transmit

SpecTransport == InitTransport /\ [][NextTransport]_vars

----------------------------------------------------------------------------
(* Properties *)

Done == mainPc = "done"

HasResult(i) == finished[i] # NoResult

Status(i) == finished[i][2]

Note(i) == finished[i][3]

\* what check_one queries for input i: the input with the default TLD
\* appended when it has no dot, then stripped and lower-cased
Normalised(i) == Normalise[domains[i], default_tld].d

\* the zone of every input string, by default TLD
ZoneOfInput ==
    [x \in DomainPool, tld \in TldPool |-> Zone(Normalise[x, tld].d)]

\* the zone of input i, for an input whose normalised form has a dot
ZoneOf(i) == ZoneOfInput[domains[i], default_tld]

Prefixed(d) == <<"d", "o", "m", "a", "i", "n", " ">> \o d

AllFailed(log) == \A k \in 1..Len(log) : ~log[k].ok

\* C1: when the batch is done, the record at output position i is the record
\* of the check of the domain at input position i.
C1_OutputInInputOrder ==
    Done => /\ Len(results) = Len(domains)
            /\ \A i \in Tasks : results[i] = finished[i]

\* C2: no failure aborts the batch: a call that has ended has left a record;
\* until main is done there is a record to collect, a call running or a call
\* that a free thread can take; and the finished batch holds exactly the
\* records of the calls, one per input domain.
C2_OneRecordPerDomain ==
    /\ \A i \in Tasks : chk[i].pc = "returned" => HasResult(i)
    /\ Done \/ (\E i \in Tasks : HasResult(i) /\ i \notin collected)
            \/ Running # {}
            \/ (nextTask <= Len(domains) /\ ThreadFree)
    /\ Done => /\ Len(results) = Len(domains)
               /\ collected = Tasks
               /\ \A i \in Tasks :
                    Cardinality({k \in 1..Len(results) : results[k] = finished[i]})
                      = Cardinality({j \in Tasks : finished[j] = finished[i]})

\* a finished batch of two in which one domain was invalid and the other ended
\* in error after a successful directory lookup
C2_Witness ==
    /\ Done
    /\ Len(domains) = 2
    /\ {results[1][2], results[2][2]} = {"invalid", "error"}

\* a finished batch in which a directory lookup failed
C2_WitnessLookup ==
    /\ Done
    /\ \E k \in 1..Len(results) : results[k][3] = NotFoundNote

\* C3: the first field of every record check_one returns is the domain string
\* the caller supplied.
C3_FirstFieldIsInput ==
    \A i \in Tasks : HasResult(i) => finished[i][1] = domains[i]

\* C4: a transport call that returned a response is the last call of the check
\* and the check has returned its classification, unknown included; the first
\* call sends the bare domain, the prefixed variant follows only a failed bare
\* call, and a bare call of a new attempt follows only a failed prefixed call.
C4_FirstResponseEnds ==
    \A c \in observed :
        LET log == authCalls[c]
            d == Normalised(c)
        IN  \A k \in 1..Len(log) :
              /\ log[k].ok =>
                   /\ k = Len(log)
                   /\ HasResult(c)
                   /\ Status(c) \in {"registered", "free", "unknown"}
                   /\ Note(c) = WhoisNote(log[k].server)
              /\ k = 1 => log[k].q = d
              /\ (k > 1 /\ log[k].q = Prefixed(d)) =>
                   log[k - 1].q = d /\ ~log[k - 1].ok
              /\ (k > 1 /\ log[k].q = d) =>
                   log[k - 1].q = Prefixed(d) /\ ~log[k - 1].ok
              /\ log[k].q \in {d, Prefixed(d)}

\* a check that ended unknown on the response to its third transport call
C4_Witness ==
    \E c \in observed :
        /\ HasResult(c)
        /\ Len(authCalls[c]) = 3
        /\ authCalls[c][3].ok
        /\ Status(c) = "unknown"

\* C5: a check makes at most 2*(retry+1) transport calls to the authoritative
\* server, the bare domain at every odd call and the prefixed variant at every
\* even one; it returns error only after 2*(retry+1) calls that all failed, and
\* while all calls so far have failed and fewer were made it has not returned.
C5_AllAttemptsBeforeError ==
    \A c \in observed :
        LET log == authCalls[c]
            d == Normalised(c)
        IN  /\ Len(log) <= 2 * (retry + 1)
            /\ \A k \in 1..Len(log) :
                 log[k].q = IF k % 2 = 1 THEN d ELSE Prefixed(d)
            /\ (HasResult(c) /\ Status(c) = "error") =>
                 Len(log) = 2 * (retry + 1) /\ AllFailed(log)
            /\ (Len(log) > 0 /\ AllFailed(log) /\ Len(log) < 2 * (retry + 1)) =>
                 ~HasResult(c)

\* retry = 2: error after six failed calls
C5_Witness ==
    \E c \in observed :
        /\ retry = 2
        /\ HasResult(c)
        /\ Status(c) = "error"
        /\ Len(authCalls[c]) = 6

\* a check returns error exactly when its directory lookup gave a server and
\* every transport call to that server failed
ErrorIffAllFailed(c) ==
    HasResult(c) =>
        (Status(c) = "error"
           <=> (resolved[c] # None /\ AllFailed(authCalls[c])))

\* C6 as claimed: error exactly when the lookup succeeded and every transport
\* call failed, and the note is then the message of the last failed call.
C6_ErrorNoteIsLastMessage ==
    \A c \in observed :
        /\ ErrorIffAllFailed(c)
        /\ (HasResult(c) /\ Status(c) = "error") =>
              Note(c) = <<lastFail[c]>>

\* C6 as amended: error exactly when the lookup succeeded and every transport
\* call failed; the note is then the message of the last failed call when that
\* message is not empty, and the fixed fallback text when it is empty.
C6_ErrorNoteIsLastMessageOrFallback ==
    \A c \in observed :
        /\ ErrorIffAllFailed(c)
        /\ (HasResult(c) /\ Status(c) = "error") =>
              Note(c) = IF lastFail[c] = "" THEN FallbackNote
                            ELSE <<lastFail[c]>>

\* an error after two or more failed calls, reported with the message of the last
C6_Witness ==
    \E c \in observed :
        /\ HasResult(c)
        /\ Status(c) = "error"
        /\ Note(c) = <<"refused">>
        /\ lastFail[c] = "refused"
        /\ Len(authCalls[c]) >= 2

\* C7: for an input whose normalised form is empty or has no dot, the step
\* that takes the call returns the invalid record, and no step makes a
\* root-directory query or an authoritative-server query for it, gives it a
\* directory result or changes the cache.
C7_InvalidNoNetwork ==
    [][\A c \in observed :
          LET d == Normalised(c)
          IN  (d = <<>> \/ ~HasDot(d)) =>
                /\ chk[c].pc = "queued" =>
                     \/ chk'[c].pc = "queued"
                     \/ /\ chk'[c].pc = "returned"
                        /\ finished'[c] =
                             <<WithDefaultTld(domains[c], default_tld), "invalid", InvalidNote>>
                /\ chk[c].pc # "queued" => chk'[c] = chk[c] /\ finished'[c] = finished[c]
                /\ rootCalls'[c] = 0
                /\ authCalls'[c] = <<>>
                /\ resolved'[c] = None
                /\ cache' = cache]_vars

\* the input "a." has lost its only dot and was returned as invalid, with a
\* cache that held an entry
C7_Witness ==
    \E c \in observed :
        /\ domains[c] = <<"a", ".">>
        /\ HasResult(c)
        /\ Status(c) = "invalid"
        /\ cache # <<>>

\* C8: a check asks the root directory at most once; when the lookup gave no
\* server the check returns unknown with the lookup note and has made no
\* authoritative-server query.
C8_LookupFailureIsUnknown ==
    \A c \in observed :
        /\ rootCalls[c] <= 1
        /\ resolved[c] = None => authCalls[c] = <<>>
        /\ (HasResult(c) /\ resolved[c] = None /\ Status(c) # "invalid") =>
              /\ Status(c) = "unknown"
              /\ Note(c) = NotFoundNote
              /\ rootCalls[c] = 1
        /\ (chk[c].pc = "returned" /\ rootCalls[c] = 1 /\ resolved[c] = None) =>
              HasResult(c) /\ Status(c) = "unknown"

\* a check returned unknown after its one root query gave no server
C8_Witness ==
    \E c \in observed :
        /\ HasResult(c)
        /\ Note(c) = NotFoundNote
        /\ rootCalls[c] = 1
        /\ authCalls[c] = <<>>

\* the inputs that reach the directory lookup
Looked == {i \in Tasks : HasDot(Normalised(i)) /\ Normalised(i) # <<>>}

\* C9 as claimed: the checks of one batch make at most one root-directory
\* query per zone.
C9_OneRootQueryPerZone ==
    \A i \in Looked, j \in Looked :
        (i # j /\ ZoneOf(i) = ZoneOf(j)) => rootCalls[i] + rootCalls[j] <= 1

\* C9 as amended: a check sends a root-directory query only when the cache
\* holds no entry for its zone at its lookup, and at most once; so the checks
\* of a zone send more than one only through a lookup made before an earlier
\* one has stored a host.
C9_RootQueryOnlyOnMiss ==
    [][\A i \in Tasks :
          rootCalls'[i] # rootCalls[i] =>
             /\ rootCalls[i] = 0
             /\ rootCalls'[i] = 1
             /\ Zone(chk[i].d) \notin DOMAIN cache]_vars

\* two checks of one zone, the second of which was served from the cache
C9_Witness ==
    \E i \in Looked, j \in Looked :
        /\ i # j
        /\ ZoneOf(i) = ZoneOf(j)
        /\ rootCalls[i] = 1
        /\ rootCalls[j] = 0
        /\ resolved[j] # None
        /\ resolved[j] = resolved[i]

\* C10: a check whose last transport call returned a response has a record
\* that is registered, free or unknown with the note "whois: " and the host the
\* directory lookup returned to this check, and every transport call of the
\* check went to that host; registered and free occur in no other way.
C10_NoteNamesResolvedServer ==
    \A c \in observed :
        LET log == authCalls[c]
            answered == Len(log) > 0 /\ log[Len(log)].ok
        IN  /\ \A k \in 1..Len(log) :
                 log[k].server = resolved[c] /\ resolved[c] \in Hosts
            /\ (HasResult(c) /\ answered) =>
                 /\ Status(c) \in {"registered", "free", "unknown"}
                 /\ Note(c) = WhoisNote(resolved[c])
            /\ (HasResult(c) /\ Status(c) \in {"registered", "free"}) => answered

\* a check that ended unknown on a received response, after a failed call
C10_Witness ==
    \E c \in observed :
        /\ HasResult(c)
        /\ Status(c) = "unknown"
        /\ Len(authCalls[c]) = 2
        /\ authCalls[c][2].ok
        /\ Note(c) = WhoisNote("whois.h2")

\* a check served from the cache, registered on its first response
C10_WitnessCached ==
    \E c \in observed :
        /\ HasResult(c)
        /\ Status(c) = "registered"
        /\ rootCalls[c] = 0
        /\ Note(c) = WhoisNote("whois.h1")

\* the input of call i with surrounding whitespace and trailing dots removed
Trimmed(i) == RStrip(Strip(domains[i], Space), Dot)

\* C11: an input that is non-empty and has no dot once surrounding whitespace
\* and trailing dots are trimmed is never classified invalid and is looked up
\* and queried as the trimmed name, a dot and the default TLD; an input with
\* a dot inside is looked up without the default TLD.
C11_DefaultTldAfterTrim ==
    \A c \in observed :
        LET t == Trimmed(c)
            me == chk[c]
        IN  /\ (t # <<>> /\ ~HasDot(t)) =>
                 /\ HasResult(c) => Status(c) # "invalid"
                 /\ me.pc \in {"resolve", "root", "query"} =>
                      me.d = Lower(t) \o <<Dot>> \o default_tld
            /\ (HasDot(t) /\ me.pc \in {"resolve", "root", "query"}) =>
                 me.d = Lower(t)

\* C12: interpret_whois answers with the first rule that matches, in the
\* order availability marker, "domain name:" line, active "status:" line,
\* registration data: a text with a marker is free whatever else matches, a
\* text without a marker and with any of the three registered indicators is
\* registered, and a text that matches no rule is unknown.
C12_FirstMatchWins ==
    probe.status # None =>
        LET raw == probe.raw
            marker == \E k \in 1..Len(raw) : raw[k] \in {L_nomatch, L_free}
            indicator == \E k \in 1..Len(raw) : raw[k] \in {L_domain, L_status, L_registrant}
        IN  /\ marker => probe.status = "free"
            /\ (~marker /\ indicator) => probe.status = "registered"
            /\ (~marker /\ ~indicator) => probe.status = "unknown"

\* a classified text in which all four rules match, the marker not first
C12_Witness ==
    /\ probe.status = "free"
    /\ Len(probe.raw) = 4
    /\ probe.raw[1] = L_domain
    /\ HasAvailableMarker(probe.raw)
    /\ HasActiveStatusLine(probe.raw)
    /\ HasRegistrationData(probe.raw)

\* the transport calls call i has made to the authoritative server, by its
\* position in the loops of lines 101-102
AuthCallsMade(i) ==
    IF chk[i].pc = "query" THEN 2 * chk[i].attempt + (chk[i].qi - 1) ELSE 0

\* C13: with fair scheduling and transport calls that return or fail, every
\* submitted call is taken from the queue, returns and is collected, and main
\* finishes; a check sends at most one root-directory query and at most
\* 2 * (retry + 1) queries to the authoritative server; a call that was taken
\* keeps its thread until it returns, and at most `workers` calls are in
\* progress at any time.
C13_ChecksAndBatchTerminate ==
    /\ <>(Done /\ \A i \in Tasks : HasResult(i) /\ i \in collected)
    /\ [](/\ Cardinality(Running) <= workers
          /\ \A i \in Tasks : /\ rootCalls[i] <= 1
                              /\ AuthCallsMade(i) < 2 * (retry + 1))
    /\ [][\A i \in Tasks :
            /\ (chk[i].pc = "queued" /\ chk'[i].pc # "queued") =>
                 Cardinality(Running) < workers
            /\ (i \in Running /\ i \notin Running') => HasResult(i)'
            /\ chk'[i].pc = "queued" => chk[i].pc = "queued"]_vars

\* a finished batch of more domains than threads in which every check made
\* all its transport calls and ended in error
C13_Witness ==
    /\ Done
    /\ workers < Len(domains)
    /\ \A i \in Tasks : Status(i) = "error"
    /\ \E i \in Tasks : rootCalls[i] = 1

\* the hosts parsed from the root directory's responses to queries for zone
\* z, zone being the zones of the submitted calls
Referred(zone, z) ==
    {resolved[k] : k \in {j \in Tasks : /\ rootCalls[j] = 1
                                        /\ resolved[j] # None
                                        /\ zone[j] = z}}

\* C14: under every interleaving, each cache entry for a zone holds a host
\* parsed from a root-directory response to a query for that zone; the zone of
\* every successful lookup is still in the cache; every check that is querying
\* or was served from the cache uses a host the root directory returned for
\* its zone; and a check sends at most one root-directory query.
C14_CacheNeverCorrupted ==
    LET zone == [i \in Tasks |-> ZoneOf(i)]
    IN  /\ \A z \in DOMAIN cache : cache[z] \in Referred(zone, z)
        /\ \A i \in Tasks :
             /\ resolved[i] # None =>
                  /\ zone[i] \in DOMAIN cache
                  /\ resolved[i] \in Referred(zone, zone[i])
             /\ chk[i].pc = "query" =>
                  /\ chk[i].server = resolved[i]
                  /\ chk[i].server \in Referred(zone, zone[i])
             /\ rootCalls[i] <= 1

\* a race: two checks of one zone both asked the root directory and got
\* different hosts; both are querying, each its own host, and the cache holds
\* one of the two
C14_Witness ==
    \E i \in Tasks, j \in Tasks :
        /\ i # j
        /\ ZoneOf(i) = ZoneOf(j)
        /\ rootCalls[i] = 1 /\ rootCalls[j] = 1
        /\ chk[i].pc = "query" /\ chk[j].pc = "query"
        /\ chk[i].server # chk[j].server
        /\ cache[ZoneOf(i)] = chk[j].server

\* C15: when a lookup for a zone returns a host it got from the root
\* directory, the cache holds that host for the zone in the same step; and a
\* lookup that starts after some lookup for its zone has returned a host sends
\* no root-directory query and returns the host the cache holds for the zone,
\* at any later point of the run.
C15_ResolvedZoneServedFromCache ==
    [][\A i \in Tasks :
          LET z == ZoneOf(i)
          IN  /\ (resolved[i] = None /\ resolved'[i] # None) =>
                   /\ z \in DOMAIN cache'
                   /\ cache'[z] = resolved'[i]
              /\ ( /\ chk[i].pc = "resolve"
                   /\ chk'[i].pc # "resolve"
                   /\ \E j \in Tasks : resolved[j] # None /\ ZoneOf(j) = z ) =>
                   /\ rootCalls'[i] = rootCalls[i]
                   /\ chk'[i].pc = "query"
                   /\ chk'[i].server = cache[z]
                   /\ resolved'[i] = cache[z]]_vars

\* a check that asked the root directory has returned, and a later check of
\* the same zone is querying the cached host without a root query of its own
C15_Witness ==
    \E i \in Tasks, j \in Tasks :
        /\ i < j
        /\ ZoneOf(i) = ZoneOf(j)
        /\ rootCalls[i] = 1
        /\ HasResult(i) /\ Status(i) # "unknown"
        /\ rootCalls[j] = 0
        /\ chk[j].pc = "query"
        /\ chk[j].server = cache[ZoneOf(j)]

\* C16: a transport call that fails at connect, at send, at the half-close or
\* while reading, also after chunks of the response have come in, is a failed
\* call for check_one: its message is caught, nothing is classified, and the
\* check goes on with the next variant or attempt or, after the last one,
\* returns error; a classification comes only from a call that read the
\* response to its end, and is that of the whole response.
C16_FailedCallYieldsNoText ==
    \A c \in observed :
        LET s == lastCall[c]
            log == authCalls[c]
            failed == s.connect # "ok" \/ s.send # "ok" \/ s.shutdown # "ok" \/ s.end # "eof"
            msg == IF s.connect # "ok" THEN s.connect
                   ELSE IF s.send # "ok" THEN s.send
                   ELSE IF s.shutdown # "ok" THEN s.shutdown
                   ELSE s.end
        IN  s # NoCall =>
              /\ Len(log) > 0
              /\ failed =>
                   /\ ~log[Len(log)].ok
                   /\ lastFail[c] = msg
                   /\ HasResult(c) => Status(c) = "error" /\ Len(log) = 2 * (retry + 1)
                   /\ ~HasResult(c) =>
                        /\ chk[c].pc = "query"
                        /\ 2 * chk[c].attempt + chk[c].qi = Len(log) + 1
              /\ ~failed =>
                   /\ log[Len(log)].ok
                   /\ HasResult(c)
                   /\ Status(c) = interpret_whois(Join(s.chunks))

\* the reading of the first call failed after a "domain name:" line had come
\* in, and the check goes on with the prefixed variant
C16_Witness ==
    \E c \in observed :
        /\ Len(authCalls[c]) = 1
        /\ lastCall[c].chunks = <<<<L_domain>>>>
        /\ lastCall[c].end = "timed out"
        /\ ~HasResult(c)
        /\ chk[c].qi = 2

\* C17: a root-directory lookup that fails, by an exception or by a response
\* without a referral, ends the check as unknown and leaves the cache as it
\* was; the cache holds hosts only, never a marker of a failed lookup; and a
\* lookup for a zone that is not in the cache sends a root-directory query,
\* so a lookup that follows a failed one for the same zone asks again.
C17_FailedLookupLeavesCache ==
    [][/\ \A z \in DOMAIN cache' : cache'[z] \in Hosts
       /\ \A i \in Tasks :
            /\ (chk[i].pc = "root" /\ chk'[i].pc = "returned") =>
                 /\ cache' = cache
                 /\ finished'[i] = <<chk[i].domain, "unknown", NotFoundNote>>
            /\ (chk[i].pc = "resolve" /\ chk'[i].pc # "resolve"
                  /\ Zone(chk[i].d) \notin DOMAIN cache) =>
                 /\ chk'[i].pc = "root"
                 /\ rootCalls'[i] = rootCalls[i] + 1]_vars

\* one thread: the lookup of the first check has failed and the check has
\* returned, and the second check, of the same zone, has sent its own
\* root-directory query
C17_Witness ==
    /\ workers = 1
    /\ Len(domains) = 2
    /\ ZoneOf(1) = ZoneOf(2)
    /\ HasResult(1) /\ Note(1) = NotFoundNote
    /\ rootCalls[1] = 1
    /\ chk[2].pc = "root"
    /\ rootCalls[2] = 1
    /\ cache = <<>>

\* the connections open after the first k socket operations of a call, the
\* connect counting when it succeeded
OpenAfter(ops, connected, k) ==
    Cardinality({j \in 1..k : ops[j] = "connect" /\ connected})
      - Cardinality({j \in 1..k : ops[j] = "close"})

\* C18: a call of whois_query starts with a connect of its own and makes no
\* other; on the connection it sends, then half-closes, then reads, and a
\* call that returns has read until the peer closed, one recv per chunk and
\* one for the end; whether it returns or raises, the connection is closed as
\* its last operation, so none is open when the call is over and never more
\* than one during it.
C18_OwnConnectionClosedOnExit ==
    wire.out # NoWire.out =>
        LET ops == wire.out.ops
            s == wire.script
            n == Len(ops)
            connected == s.connect = "ok"
        IN  /\ n > 0 /\ ops[1] = "connect"
            /\ \A k \in 2..n : ops[k] # "connect"
            /\ ~connected => ops = <<"connect">> /\ ~wire.out.ok
            /\ connected =>
                 /\ ops[n] = "close"
                 /\ \A k \in 1..(n - 1) : ops[k] # "close"
                 /\ ops[2] = "sendall"
                 /\ \A k \in 1..n : ops[k] = "shutdown" => ops[k - 1] = "sendall"
                 /\ \A k \in 1..n : ops[k] = "recv" => ops[k - 1] \in {"shutdown", "recv"}
            /\ wire.out.ok =>
                 /\ ops = <<"connect", "sendall", "shutdown">>
                            \o [k \in 1..(Len(s.chunks) + 1) |-> "recv"] \o <<"close">>
                 /\ wire.out.text = [k \in 1..Len(s.chunks) |-> s.chunks[k][1]]
            /\ \A k \in 0..n : OpenAfter(ops, connected, k) \in {0, 1}
            /\ OpenAfter(ops, connected, n) = 0

\* a call that raised while reading, after two chunks, and closed its
\* connection
C18_Witness ==
    /\ ~wire.out.ok
    /\ wire.out.err = "refused"
    /\ Len(wire.script.chunks) = 2
    /\ wire.out.ops = <<"connect", "sendall", "shutdown", "recv", "recv", "recv", "close">>

====
